---------------------------- MODULE Spec2Model ----------------------------
(***************************************************************************)
(* A model of the a11y-core color module (src/unnamed/part_002): the       *)
(* parser of CSS color strings, alpha flattening, the WCAG contrast ratio  *)
(* and the color-suggestion engine with its YCbCr gamut search.            *)
(*                                                                         *)
(* JavaScript numbers are modelled as decimal fixed-point numbers with six *)
(* fractional digits (the integer n stands for n / Unit), every operation  *)
(* rounding to the nearest representable value, plus the value NaN.        *)
(* Math.pow is a table of x^2.4 in steps of a thousandth, interpolated.    *)
(* The values agree with IEEE doubles to about six digits: a result that   *)
(* lies within 10^-6 of a rounding boundary may differ in its last digit.  *)
(* Strings are sequences of one-character strings.                         *)
(***************************************************************************)
EXTENDS Integers, Sequences, FiniteSets, TLC

\* The fixed-point unit: the integer that stands for the number 1.
Unit == 1000 * 1000

\* The number NaN (parseFloat of an empty match, 0/0); no other value uses it.
NaN == -2147483647

IsNaN(x) == x = NaN

Abs(x) == IF x < 0 THEN -x ELSE x

\* The product of two non-negative numbers, rounded to the nearest unit.
\* The operands are split in thousands to stay within 32-bit integers.
MulNat(a, b) ==
    LET ah == a \div 1000
        al == a % 1000
        bh == b \div 1000
        bl == b % 1000
    IN  ah * bh + (ah * bl + al * bh + ((al * bl) \div 1000) + 500) \div 1000

\* The sign of the product or quotient of a and b.
SignOf(a, b) == IF (a < 0) = (b < 0) THEN 1 ELSE -1

\* a * b of JavaScript.
Mul(a, b) ==
    IF IsNaN(a) \/ IsNaN(b) THEN NaN
    ELSE SignOf(a, b) * MulNat(Abs(a), Abs(b))

\* One decimal digit of a long division by b: qr = <<quotient, remainder>>.
DivStep(qr, b) == <<qr[1] * 10 + (qr[2] * 10) \div b, (qr[2] * 10) % b>>

\* The quotient of a non-negative number by a positive one, rounded to the
\* nearest unit: exact integer division for a whole divisor, six digits of
\* long division otherwise.
DivRound(qr, b) == IF 2 * qr[2] >= b THEN qr[1] + 1 ELSE qr[1]

DivNat(a, b) ==
    IF b % Unit = 0
    THEN (a + (b \div Unit) \div 2) \div (b \div Unit)
    ELSE DivRound(DivStep(DivStep(DivStep(DivStep(DivStep(DivStep(
                    <<a \div b, a % b>>, b), b), b), b), b), b), b)

\* a / b of JavaScript (0 / 0 is NaN; no other division by zero arises).
Div(a, b) ==
    IF IsNaN(a) \/ IsNaN(b) THEN NaN
    ELSE IF a = 0 /\ b = 0 THEN NaN
    ELSE SignOf(a, b) * DivNat(Abs(a), Abs(b))

\* a + b and a - b of JavaScript.
Add(a, b) == IF IsNaN(a) \/ IsNaN(b) THEN NaN ELSE a + b

Sub(a, b) == IF IsNaN(a) \/ IsNaN(b) THEN NaN ELSE a - b

\* The comparisons of JavaScript: every comparison with NaN is false.
Lt(a, b) == ~IsNaN(a) /\ ~IsNaN(b) /\ a < b

Le(a, b) == ~IsNaN(a) /\ ~IsNaN(b) /\ a <= b

Gt(a, b) == ~IsNaN(a) /\ ~IsNaN(b) /\ a > b

Ge(a, b) == ~IsNaN(a) /\ ~IsNaN(b) /\ a >= b

\* a != b of JavaScript on numbers: NaN differs from everything.
Ne(a, b) == IsNaN(a) \/ IsNaN(b) \/ a /= b

MathMax(a, b) == IF IsNaN(a) \/ IsNaN(b) THEN NaN ELSE IF a > b THEN a ELSE b

MathMin(a, b) == IF IsNaN(a) \/ IsNaN(b) THEN NaN ELSE IF a < b THEN a ELSE b

MathAbs(a) == IF IsNaN(a) THEN NaN ELSE Abs(a)

\* Math.round: the nearest integer, halves rounded up.
MathRound(a) == IF IsNaN(a) THEN NaN ELSE ((a + Unit \div 2) \div Unit) * Unit

\* Math.pow(x, 2.4) at x = 0, 0.001, 0.002, ..., 1.2 (entry i + 1 is x = i / 1000).
POW24 ==
  <<
     0, 0, 0, 1, 2, 3, 5, 7, 9, 12, 16, 20,
     25, 30, 36, 42, 49, 57, 65, 74, 84, 94, 105, 117,
     130, 143, 157, 172, 188, 204, 221, 239, 258, 278, 299, 320,
     343, 366, 390, 415, 442, 468, 496, 525, 555, 586, 617, 650,
     684, 719, 754, 791, 829, 867, 907, 948, 990, 1033, 1077, 1122,
     1168, 1216, 1264, 1313, 1364, 1416, 1469, 1523, 1578, 1634, 1691, 1750,
     1810, 1871, 1933, 1996, 2060, 2126, 2193, 2261, 2330, 2401, 2473, 2546,
     2620, 2695, 2772, 2850, 2929, 3010, 3092, 3175, 3259, 3345, 3432, 3520,
     3610, 3700, 3793, 3886, 3981, 4077, 4175, 4274, 4374, 4476, 4579, 4683,
     4789, 4896, 5004, 5114, 5225, 5338, 5452, 5568, 5685, 5803, 5923, 6044,
     6166, 6290, 6416, 6543, 6671, 6801, 6932, 7065, 7200, 7335, 7472, 7611,
     7751, 7893, 8036, 8181, 8327, 8475, 8624, 8775, 8927, 9081, 9236, 9393,
     9551, 9711, 9873, 10036, 10201, 10367, 10535, 10704, 10875, 11047, 11221, 11397,
     11574, 11753, 11934, 12116, 12300, 12485, 12672, 12860, 13050, 13242, 13436, 13631,
     13827, 14026, 14226, 14427, 14631, 14836, 15042, 15251, 15461, 15672, 15886, 16101,
     16318, 16536, 16756, 16978, 17201, 17427, 17654, 17882, 18113, 18345, 18578, 18814,
     19051, 19290, 19531, 19773, 20018, 20264, 20511, 20761, 21012, 21265, 21520, 21777,
     22035, 22295, 22557, 22821, 23086, 23353, 23623, 23893, 24166, 24441, 24717, 24995,
     25275, 25557, 25840, 26126, 26413, 26702, 26993, 27285, 27580, 27876, 28175, 28475,
     28777, 29081, 29386, 29694, 30003, 30315, 30628, 30943, 31260, 31579, 31900, 32222,
     32547, 32873, 33201, 33532, 33864, 34198, 34534, 34872, 35211, 35553, 35897, 36242,
     36590, 36939, 37291, 37644, 37999, 38357, 38716, 39077, 39440, 39805, 40172, 40541,
     40912, 41285, 41660, 42037, 42415, 42796, 43179, 43564, 43951, 44339, 44730, 45123,
     45518, 45915, 46313, 46714, 47117, 47522, 47929, 48338, 48749, 49162, 49577, 49994,
     50413, 50834, 51257, 51682, 52110, 52539, 52970, 53404, 53839, 54277, 54717, 55158,
     55602, 56048, 56496, 56946, 57398, 57852, 58308, 58767, 59227, 59690, 60154, 60621,
     61090, 61561, 62034, 62509, 62987, 63466, 63948, 64431, 64917, 65405, 65895, 66387,
     66882, 67378, 67877, 68378, 68881, 69386, 69893, 70402, 70914, 71428, 71943, 72462,
     72982, 73504, 74029, 74555, 75084, 75615, 76149, 76684, 77222, 77762, 78304, 78848,
     79394, 79943, 80494, 81047, 81602, 82160, 82719, 83281, 83846, 84412, 84980, 85551,
     86124, 86700, 87277, 87857, 88439, 89023, 89610, 90198, 90789, 91383, 91978, 92576,
     93176, 93778, 94383, 94989, 95598, 96210, 96823, 97439, 98057, 98678, 99301, 99926,
     100553, 101183, 101814, 102449, 103085, 103724, 104365, 105008, 105654, 106302, 106952, 107605,
     108260, 108917, 109577, 110239, 110903, 111570, 112239, 112910, 113584, 114259, 114938, 115618,
     116301, 116987, 117674, 118364, 119057, 119751, 120448, 121148, 121850, 122554, 123260, 123969,
     124680, 125394, 126110, 126829, 127549, 128272, 128998, 129726, 130456, 131189, 131924, 132662,
     133402, 134144, 134889, 135636, 136385, 137137, 137892, 138648, 139408, 140169, 140933, 141700,
     142469, 143240, 144014, 144790, 145568, 146349, 147133, 147919, 148707, 149498, 150291, 151087,
     151885, 152686, 153489, 154294, 155102, 155913, 156726, 157541, 158359, 159179, 160002, 160828,
     161655, 162486, 163318, 164154, 164991, 165831, 166674, 167519, 168367, 169217, 170070, 170925,
     171783, 172643, 173505, 174371, 175238, 176108, 176981, 177856, 178734, 179614, 180497, 181383,
     182270, 183161, 184054, 184949, 185847, 186748, 187651, 188556, 189465, 190375, 191289, 192204,
     193123, 194044, 194967, 195893, 196822, 197753, 198687, 199623, 200562, 201503, 202447, 203394,
     204343, 205294, 206249, 207206, 208165, 209127, 210092, 211059, 212029, 213001, 213976, 214954,
     215934, 216917, 217902, 218890, 219881, 220874, 221870, 222869, 223870, 224874, 225880, 226889,
     227900, 228915, 229931, 230951, 231973, 232998, 234025, 235055, 236088, 237123, 238161, 239201,
     240245, 241291, 242339, 243390, 244444, 245501, 246560, 247621, 248686, 249753, 250823, 251895,
     252970, 254048, 255129, 256212, 257298, 258386, 259477, 260571, 261668, 262767, 263869, 264974,
     266081, 267191, 268304, 269419, 270537, 271658, 272782, 273908, 275037, 276168, 277303, 278440,
     279580, 280722, 281867, 283015, 284166, 285319, 286475, 287634, 288796, 289960, 291127, 292297,
     293470, 294645, 295823, 297003, 298187, 299373, 300562, 301754, 302948, 304146, 305346, 306548,
     307754, 308962, 310173, 311387, 312603, 313823, 315045, 316270, 317497, 318728, 319961, 321197,
     322436, 323677, 324921, 326169, 327418, 328671, 329927, 331185, 332446, 333710, 334976, 336246,
     337518, 338793, 340071, 341352, 342635, 343921, 345211, 346502, 347797, 349095, 350395, 351698,
     353004, 354313, 355625, 356939, 358257, 359577, 360900, 362226, 363554, 364886, 366220, 367557,
     368897, 370240, 371586, 372934, 374286, 375640, 376997, 378357, 379720, 381086, 382454, 383826,
     385200, 386577, 387957, 389340, 390726, 392114, 393506, 394900, 396298, 397698, 399101, 400507,
     401915, 403327, 404742, 406159, 407579, 409003, 410429, 411858, 413290, 414725, 416162, 417603,
     419046, 420493, 421942, 423395, 424850, 426308, 427769, 429233, 430700, 432169, 433642, 435118,
     436596, 438078, 439562, 441049, 442539, 444033, 445529, 447028, 448530, 450035, 451543, 453053,
     454567, 456084, 457603, 459126, 460652, 462180, 463712, 465246, 466783, 468324, 469867, 471413,
     472962, 474515, 476070, 477628, 479189, 480753, 482320, 483890, 485463, 487039, 488618, 490200,
     491785, 493373, 494964, 496557, 498154, 499754, 501357, 502963, 504572, 506183, 507798, 509416,
     511037, 512661, 514288, 515918, 517550, 519186, 520825, 522467, 524112, 525760, 527411, 529065,
     530722, 532382, 534045, 535711, 537380, 539052, 540727, 542406, 544087, 545771, 547458, 549149,
     550842, 552538, 554238, 555940, 557646, 559355, 561066, 562781, 564499, 566219, 567943, 569670,
     571400, 573133, 574869, 576609, 578351, 580096, 581845, 583596, 585350, 587108, 588869, 590632,
     592399, 594169, 595942, 597718, 599497, 601280, 603065, 604853, 606645, 608439, 610237, 612038,
     613842, 615649, 617459, 619272, 621088, 622908, 624730, 626556, 628384, 630216, 632051, 633889,
     635730, 637574, 639422, 641272, 643126, 644983, 646842, 648705, 650572, 652441, 654313, 656189,
     658067, 659949, 661834, 663722, 665613, 667507, 669405, 671305, 673209, 675116, 677026, 678939,
     680856, 682775, 684698, 686624, 688552, 690485, 692420, 694358, 696300, 698245, 700192, 702144,
     704098, 706055, 708016, 709980, 711946, 713917, 715890, 717866, 719846, 721829, 723815, 725804,
     727796, 729792, 731791, 733793, 735798, 737806, 739818, 741832, 743850, 745871, 747896, 749923,
     751954, 753988, 756025, 758065, 760109, 762155, 764205, 766258, 768315, 770374, 772437, 774503,
     776573, 778645, 780721, 782800, 784882, 786967, 789056, 791148, 793243, 795341, 797442, 799547,
     801655, 803766, 805881, 807999, 810120, 812244, 814371, 816502, 818636, 820773, 822914, 825057,
     827204, 829354, 831508, 833665, 835825, 837988, 840154, 842324, 844497, 846673, 848853, 851036,
     853222, 855411, 857604, 859800, 861999, 864202, 866407, 868616, 870829, 873044, 875263, 877486,
     879711, 881940, 884172, 886407, 888646, 890888, 893133, 895381, 897633, 899888, 902147, 904409,
     906674, 908942, 911214, 913489, 915767, 918048, 920333, 922621, 924913, 927208, 929506, 931807,
     934112, 936420, 938732, 941046, 943365, 945686, 948011, 950339, 952670, 955005, 957343, 959684,
     962029, 964377, 966729, 969083, 971442, 973803, 976168, 978536, 980907, 983282, 985660, 988042,
     990427, 992815, 995207, 997602, 1000000, 1002402, 1004807, 1007215, 1009627, 1012042, 1014461, 1016882,
     1019308, 1021736, 1024168, 1026604, 1029042, 1031484, 1033930, 1036379, 1038831, 1041287, 1043746, 1046208,
     1048674, 1051143, 1053615, 1056091, 1058571, 1061053, 1063540, 1066029, 1068522, 1071018, 1073518, 1076021,
     1078528, 1081038, 1083551, 1086068, 1088588, 1091111, 1093638, 1096168, 1098702, 1101239, 1103780, 1106324,
     1108871, 1111422, 1113977, 1116534, 1119095, 1121660, 1124228, 1126799, 1129374, 1131952, 1134534, 1137119,
     1139707, 1142299, 1144895, 1147494, 1150096, 1152702, 1155311, 1157923, 1160539, 1163159, 1165782, 1168408,
     1171038, 1173671, 1176308, 1178948, 1181592, 1184239, 1186889, 1189543, 1192201, 1194862, 1197526, 1200194,
     1202865, 1205540, 1208218, 1210900, 1213585, 1216274, 1218966, 1221662, 1224361, 1227063, 1229769, 1232479,
     1235192, 1237908, 1240628, 1243351, 1246078, 1248809, 1251543, 1254280, 1257021, 1259765, 1262513, 1265264,
     1268019, 1270777, 1273539, 1276304, 1279073, 1281846, 1284621, 1287401, 1290184, 1292970, 1295760, 1298553,
     1301350, 1304150, 1306954, 1309761, 1312572, 1315387, 1318205, 1321026, 1323851, 1326680, 1329512, 1332347,
     1335186, 1338029, 1340875, 1343725, 1346578, 1349434, 1352295, 1355158, 1358026, 1360897, 1363771, 1366649,
     1369530, 1372415, 1375304, 1378196, 1381092, 1383991, 1386893, 1389800, 1392709, 1395623, 1398540, 1401460,
     1404384, 1407312, 1410243, 1413178, 1416116, 1419058, 1422003, 1424952, 1427905, 1430861, 1433820, 1436783,
     1439750, 1442721, 1445694, 1448672, 1451653, 1454638, 1457626, 1460618, 1463613, 1466612, 1469615, 1472621,
     1475630, 1478644, 1481660, 1484681, 1487705, 1490733, 1493764, 1496799, 1499837, 1502879, 1505925, 1508974,
     1512027, 1515083, 1518143, 1521207, 1524274, 1527345, 1530419, 1533497, 1536579, 1539664, 1542753, 1545845,
     1548941
  >>

\* The value at x of the table (x in thousandths of a unit index), interpolated
\* linearly between its entries.
Interpolate(table, x) ==
    IF x % 1000 = 0 THEN table[x \div 1000 + 1]
    ELSE table[x \div 1000 + 1]
           + ((table[x \div 1000 + 2] - table[x \div 1000 + 1]) * (x % 1000) + 500) \div 1000

\* Math.pow(x, 2.4) for 0 <= x <= 1.2.
MathPow24(x) == IF IsNaN(x) THEN NaN ELSE Interpolate(POW24, x)

\* The largest index i in lo..hi with table[i] <= v (table[lo] <= v is given).
RECURSIVE TableFloor(_, _, _, _)
TableFloor(table, v, lo, hi) ==
    IF lo = hi THEN lo
    ELSE IF table[(lo + hi + 1) \div 2] <= v
    THEN TableFloor(table, v, (lo + hi + 1) \div 2, hi)
    ELSE TableFloor(table, v, lo, (lo + hi + 1) \div 2 - 1)

\* The x at which the table, interpolated, takes the value v, which lies
\* between entries i and i + 1.
InterpolateInverse(table, v, i) ==
    (i - 1) * 1000
      + ((v - table[i]) * 1000 + (table[i + 1] - table[i]) \div 2)
          \div (table[i + 1] - table[i])

\* The inverse of the table at v >= 0; it saturates at the table's end.
TableInverse(table, v) ==
    IF v >= table[Len(table)] THEN (Len(table) - 1) * 1000
    ELSE InterpolateInverse(table, v, TableFloor(table, v, 1, Len(table) - 1))

\* Math.pow(v, 1 / 2.4) for v >= 0: the inverse of MathPow24, read off the same
\* table; it saturates at 1.2 (every use clamps far below that).
MathPowInv24(v) == IF IsNaN(v) THEN NaN ELSE TableInverse(POW24, v)

-----------------------------------------------------------------------------
\* class Color: the four fields, numbers in fixed point.
Color(red, green, blue, alpha) ==
    [type |-> "Color", red |-> red, green |-> green, blue |-> blue, alpha |-> alpha]

\* The value null.
null == [type |-> "null"]

\* class YCbCr: luma/z, Cb/x and Cr/y name the same three coordinates.
YCbCr(coords) ==
    [luma |-> coords[1], z |-> coords[1],
     Cb |-> coords[2], x |-> coords[2],
     Cr |-> coords[3], y |-> coords[3]]

YCbCr_multiply(this, scalar) ==
    YCbCr(<<Mul(this.luma, scalar), Mul(this.Cb, scalar), Mul(this.Cr, scalar)>>)

YCbCr_add(this, other) ==
    YCbCr(<<Add(this.luma, other.luma), Add(this.Cb, other.Cb), Add(this.Cr, other.Cr)>>)

YCbCr_subtract(this, other) ==
    YCbCr(<<Sub(this.luma, other.luma), Sub(this.Cb, other.Cb), Sub(this.Cr, other.Cr)>>)

multiplyMatrixVector(matrix, vector) ==
    LET a == matrix[1][1]
        b == matrix[1][2]
        c == matrix[1][3]
        d == matrix[2][1]
        e == matrix[2][2]
        f == matrix[2][3]
        g == matrix[3][1]
        h == matrix[3][2]
        k == matrix[3][3]
        x == vector[1]
        y == vector[2]
        z == vector[3]
    IN  <<Add(Add(Mul(a, x), Mul(b, y)), Mul(c, z)),
          Add(Add(Mul(d, x), Mul(e, y)), Mul(f, z)),
          Add(Add(Mul(g, x), Mul(h, y)), Mul(k, z))>>

scalarMultiplyVector(vector, scalar) ==
    [i \in 1..Len(vector) |-> Mul(vector[i], scalar)]

scalarMultiplyMatrix(matrix, scalar) ==
    [i \in 1..3 |-> scalarMultiplyVector(matrix[i], scalar)]

invert3x3Matrix(matrix) ==
    LET a == matrix[1][1]
        b == matrix[1][2]
        c == matrix[1][3]
        d == matrix[2][1]
        e == matrix[2][2]
        f == matrix[2][3]
        g == matrix[3][1]
        h == matrix[3][2]
        k == matrix[3][3]
        A == Sub(Mul(e, k), Mul(f, h))
        B == Sub(Mul(f, g), Mul(d, k))
        C == Sub(Mul(d, h), Mul(e, g))
        D == Sub(Mul(c, h), Mul(b, k))
        E == Sub(Mul(a, k), Mul(c, g))
        F == Sub(Mul(g, b), Mul(a, h))
        G == Sub(Mul(b, f), Mul(c, e))
        H == Sub(Mul(c, d), Mul(a, f))
        K == Sub(Mul(a, e), Mul(b, d))
        det == Add(Sub(Mul(a, Sub(Mul(e, k), Mul(f, h))),
                       Mul(b, Sub(Mul(k, d), Mul(f, g)))),
                   Mul(c, Sub(Mul(d, h), Mul(e, g))))
    IN  scalarMultiplyMatrix(<<<<A, D, G>>, <<B, E, H>>, <<C, F, K>>>>, Div(Unit, det))

RGBToYCbCrMatrix(kr, kb) ==
    <<<<kr, Unit - kr - kb, kb>>,
      <<Div(-kr, 2 * Unit - 2 * kb),
        Div(kr + kb - Unit, 2 * Unit - 2 * kb),
        Div(Unit - kb, 2 * Unit - 2 * kb)>>,
      <<Div(Unit - kr, 2 * Unit - 2 * kr),
        Div(kr + kb - Unit, 2 * Unit - 2 * kr),
        Div(-kb, 2 * Unit - 2 * kr)>>>>

\* const kR = 0.2126, kB = 0.0722.
kR == 212600

kB == 72200

YCC_MATRIX == RGBToYCbCrMatrix(kR, kB)

INVERTED_YCC_MATRIX == invert3x3Matrix(YCC_MATRIX)

\* The literals of the sRGB transfer function in toYCbCr and fromYCbCrArray:
\* 0.03928, 12.92, 0.055, 1.055 and 0.00303949.
SRGB_LINEAR_LIMIT == 39280

SRGB_SLOPE == 12920000

SRGB_OFFSET == 55000

SRGB_GAIN == 1055000

LINEAR_LIMIT == 3039

\* The 8-bit channel maximum 255.
CHANNEL_MAX == 255000000

\* sRGB decoding: rSRGB <= 0.03928 ? rSRGB / 12.92 : Math.pow(..., 2.4).
decodeSRGB(sRGB) ==
    IF Le(sRGB, SRGB_LINEAR_LIMIT) THEN Div(sRGB, SRGB_SLOPE)
    ELSE MathPow24(Div(Add(sRGB, SRGB_OFFSET), SRGB_GAIN))

\* One channel of toYCbCr: channel / 255, decoded.
toLinear(channel) == decodeSRGB(Div(channel, CHANNEL_MAX))

toYCbCr(color) ==
    YCbCr(multiplyMatrixVector(YCC_MATRIX,
            <<toLinear(color.red), toLinear(color.green), toLinear(color.blue)>>))

calculateLuminance(color) == toYCbCr(color).luma

\* One channel of fromYCbCrArray: sRGB encoding, scaling to 0..255, rounding,
\* clamping.  Below -1 and above 2 the clamp alone decides, and the product
\* with 255, which would leave the 32-bit range, is not formed.
\* sRGB encoding: r <= 0.00303949 ? r * 12.92 : Math.pow(r, 1 / 2.4) * 1.055 - 0.055.
encodeSRGB(v) ==
    IF Le(v, LINEAR_LIMIT) THEN Mul(v, SRGB_SLOPE)
    ELSE Sub(Mul(MathPowInv24(v), SRGB_GAIN), SRGB_OFFSET)

\* Math.min(Math.max(Math.round(sRGB * 255), 0), 255).  Below -1 and above 2
\* the clamp alone decides, and the product with 255, which would leave the
\* 32-bit range, is not formed.
toChannel(sRGB) ==
    IF Lt(sRGB, -Unit) THEN 0
    ELSE IF Gt(sRGB, 2 * Unit) THEN CHANNEL_MAX
    ELSE MathMin(MathMax(MathRound(Mul(sRGB, CHANNEL_MAX)), 0), CHANNEL_MAX)

\* new Color(red, green, blue, 1) of fromYCbCrArray, from the linear rgb.
fromLinearRGB(rgb) ==
    Color(toChannel(encodeSRGB(rgb[1])), toChannel(encodeSRGB(rgb[2])),
          toChannel(encodeSRGB(rgb[3])), Unit)

fromYCbCrArray(yccArray) ==
    fromLinearRGB(multiplyMatrixVector(INVERTED_YCC_MATRIX, yccArray))

BLACK == Color(0, 0, 0, Unit)

BLACK_YCC == toYCbCr(BLACK)

WHITE == Color(CHANNEL_MAX, CHANNEL_MAX, CHANNEL_MAX, Unit)

WHITE_YCC == toYCbCr(WHITE)

RED == Color(CHANNEL_MAX, 0, 0, Unit)

RED_YCC == toYCbCr(RED)

GREEN == Color(0, CHANNEL_MAX, 0, Unit)

GREEN_YCC == toYCbCr(GREEN)

BLUE == Color(0, 0, CHANNEL_MAX, Unit)

BLUE_YCC == toYCbCr(BLUE)

CYAN == Color(0, CHANNEL_MAX, CHANNEL_MAX, Unit)

CYAN_YCC == toYCbCr(CYAN)

MAGENTA == Color(CHANNEL_MAX, 0, CHANNEL_MAX, Unit)

MAGENTA_YCC == toYCbCr(MAGENTA)

YELLOW == Color(CHANNEL_MAX, CHANNEL_MAX, 0, Unit)

YELLOW_YCC == toYCbCr(YELLOW)

YCC_CUBE_FACES_BLACK ==
    <<[p0 |-> BLACK_YCC, p1 |-> RED_YCC, p2 |-> GREEN_YCC],
      [p0 |-> BLACK_YCC, p1 |-> GREEN_YCC, p2 |-> BLUE_YCC],
      [p0 |-> BLACK_YCC, p1 |-> BLUE_YCC, p2 |-> RED_YCC]>>

YCC_CUBE_FACES_WHITE ==
    <<[p0 |-> WHITE_YCC, p1 |-> CYAN_YCC, p2 |-> MAGENTA_YCC],
      [p0 |-> WHITE_YCC, p1 |-> MAGENTA_YCC, p2 |-> YELLOW_YCC],
      [p0 |-> WHITE_YCC, p1 |-> YELLOW_YCC, p2 |-> CYAN_YCC]>>

\* The literals 0.05 of the contrast formula and 0.02 of suggestColors.
LUMINANCE_OFFSET == 50000

CONTRAST_EPSILON == 20000

luminanceFromContrastRatio(luminance, contrast, higher) ==
    IF higher
    THEN Sub(Mul(Add(luminance, LUMINANCE_OFFSET), contrast), LUMINANCE_OFFSET)
    ELSE Sub(Div(Add(luminance, LUMINANCE_OFFSET), contrast), LUMINANCE_OFFSET)

findIntersection(l, p) ==
    LET lhs == <<Sub(l.a.x, p.p0.x), Sub(l.a.y, p.p0.y), Sub(l.a.z, p.p0.z)>>
        matrix == <<<<Sub(l.a.x, l.b.x), Sub(p.p1.x, p.p0.x), Sub(p.p2.x, p.p0.x)>>,
                    <<Sub(l.a.y, l.b.y), Sub(p.p1.y, p.p0.y), Sub(p.p2.y, p.p0.y)>>,
                    <<Sub(l.a.z, l.b.z), Sub(p.p1.z, p.p0.z), Sub(p.p2.z, p.p0.z)>>>>
        invertedMatrix == invert3x3Matrix(matrix)
        tuv == multiplyMatrixVector(invertedMatrix, lhs)
        t == tuv[1]
        result == YCbCr_add(l.a, YCbCr_multiply(YCbCr_subtract(l.b, l.a), t))
    IN  result

\* A face hits when its intersection's luma lies in [0, 1].
faceHits(intersection) == Ge(intersection.z, 0) /\ Le(intersection.z, Unit)

\* The loop of translateColor before face i, `intersection` being the loop's
\* variable: null at first, then the intersection with face i - 1.  The loop
\* breaks at the first hit; with no hit the variable keeps the intersection
\* with the last face.
RECURSIVE faceLoop(_, _, _, _)
faceLoop(line, cubeFaces, i, intersection) ==
    IF i > Len(cubeFaces) \/ (i > 1 /\ faceHits(intersection)) THEN intersection
    ELSE faceLoop(line, cubeFaces, i + 1, findIntersection(line, cubeFaces[i]))

\* A thrown string.
Throw(message) == [type |-> "throw", message |-> message]

\* The anchor of translateColor: white when the target luma is above ycc's.
endpointOf(ycc, luma) == IF Gt(luma, ycc.luma) THEN WHITE_YCC ELSE BLACK_YCC

cubeFacesOf(ycc, luma) ==
    IF Gt(luma, ycc.luma) THEN YCC_CUBE_FACES_WHITE ELSE YCC_CUBE_FACES_BLACK

lineOf(ycc) == [a |-> YCbCr(<<0, ycc.Cb, ycc.Cr>>), b |-> YCbCr(<<Unit, ycc.Cb, ycc.Cr>>)]

\* The branch of translateColor that keeps the chroma: the target luma is
\* farther from the anchor than the intersection is.
keepsChroma(endpoint, intersection, luma) ==
    Lt(MathAbs(Sub(endpoint.luma, intersection.luma)), MathAbs(Sub(endpoint.luma, luma)))

\* The desaturated triple: Cb and Cr scaled towards the anchor.
desaturated(luma, intersection, scale) ==
    <<luma,
      Sub(intersection.Cb, Mul(intersection.Cb, scale)),
      Sub(intersection.Cr, Mul(intersection.Cr, scale))>>

\* The YCbCr triple translateColor hands to fromYCbCrArray.
translatedColor(ycc, luma, endpoint, intersection) ==
    IF keepsChroma(endpoint, intersection, luma)
    THEN <<luma, ycc.Cb, ycc.Cr>>
    ELSE desaturated(luma, intersection,
                     Div(Sub(luma, intersection.luma),
                         Sub(endpoint.luma, intersection.luma)))

\* The intersection the loop of translateColor ends with.
intersectionOf(ycc, luma) == faceLoop(lineOf(ycc), cubeFacesOf(ycc, luma), 1, null)

\* translateColor after its loop.
translateWith(ycc, luma, endpoint, intersection) ==
    IF intersection = null
    THEN Throw("Couldn't find intersection with YCbCr color cube")
    ELSE IF Ne(intersection.x, ycc.x) \/ Ne(intersection.y, ycc.y)
    THEN Throw("Intersection has wrong Cb/Cr values.")
    ELSE fromYCbCrArray(translatedColor(ycc, luma, endpoint, intersection))

translateColor(ycc, luma) ==
    translateWith(ycc, luma, endpointOf(ycc, luma), intersectionOf(ycc, luma))

flattenColors(fgColor, bgColor) ==
    LET alpha == fgColor.alpha
        r == Add(Mul(Sub(Unit, alpha), bgColor.red), Mul(alpha, fgColor.red))
        g == Add(Mul(Sub(Unit, alpha), bgColor.green), Mul(alpha, fgColor.green))
        b == Add(Mul(Sub(Unit, alpha), bgColor.blue), Mul(alpha, fgColor.blue))
        a == Add(fgColor.alpha, Mul(bgColor.alpha, Sub(Unit, fgColor.alpha)))
    IN  Color(r, g, b, a)

\* Two variants of contrastRatioOf that drop what Math.max and Math.min do:
\* the first luminance over the second, and the darker over the lighter.
contrastRatioOf_FgOverBg(fgLuminance, bgLuminance) ==
    Div(Add(fgLuminance, LUMINANCE_OFFSET), Add(bgLuminance, LUMINANCE_OFFSET))

contrastRatioOf_MinOverMax(fgLuminance, bgLuminance) ==
    Div(Add(MathMin(fgLuminance, bgLuminance), LUMINANCE_OFFSET),
        Add(MathMax(fgLuminance, bgLuminance), LUMINANCE_OFFSET))

\* The contrast ratio of two luminances.
contrastRatioOf(fgLuminance, bgLuminance) ==
    Div(Add(MathMax(fgLuminance, bgLuminance), LUMINANCE_OFFSET),
        Add(MathMin(fgLuminance, bgLuminance), LUMINANCE_OFFSET))

calculateContrastRatio(fgColor, bgColor) ==
    contrastRatioOf(
        calculateLuminance(IF Lt(fgColor.alpha, Unit)
                           THEN flattenColors(fgColor, bgColor) ELSE fgColor),
        calculateLuminance(bgColor))

-----------------------------------------------------------------------------
\* Strings: sequences of one-character strings.
DIGITS == <<"0", "1", "2", "3", "4", "5", "6", "7", "8", "9">>

HEX_DIGITS == DIGITS \o <<"a", "b", "c", "d", "e", "f">>

IsDigit(c) == \E i \in 1..Len(DIGITS) : DIGITS[i] = c

DigitValue(c) == (CHOOSE i \in 1..Len(DIGITS) : DIGITS[i] = c) - 1

\* A literal of a regular expression at position i of s: the position after
\* it, or 0 when it does not match there (0 is passed on by every matcher).
Lit(s, i, w) ==
    IF i = 0 THEN 0
    ELSE IF i + Len(w) - 1 <= Len(s) /\ SubSeq(s, i, i + Len(w) - 1) = w
    THEN i + Len(w)
    ELSE 0

\* The position after the longest run of digits of s that starts at i.
RECURSIVE DigitRun(_, _)
DigitRun(s, i) ==
    IF i <= Len(s) /\ IsDigit(s[i]) THEN DigitRun(s, i + 1) ELSE i

\* \d+ and \d* at position i.
DigitsPlus(s, i) ==
    IF i = 0 THEN 0
    ELSE LET e == DigitRun(s, i) IN IF e > i THEN e ELSE 0

DigitsStar(s, i) == IF i = 0 THEN 0 ELSE DigitRun(s, i)

\* (\.\d+)? at position i.
OptionalFraction(s, i) ==
    IF i = 0 THEN 0
    ELSE LET e == DigitsPlus(s, Lit(s, i, <<".">>)) IN IF e > 0 THEN e ELSE i

\* /^rgb\((\d+), (\d+), (\d+)\)$/ on s: the three groups, or the
\* empty tuple for no match.
rgbRegex(s) ==
    LET r1 == Lit(s, 1, <<"r", "g", "b", "(">>)
        r2 == DigitsPlus(s, r1)
        g1 == Lit(s, r2, <<",", " ">>)
        g2 == DigitsPlus(s, g1)
        b1 == Lit(s, g2, <<",", " ">>)
        b2 == DigitsPlus(s, b1)
        e == Lit(s, b2, <<")">>)
    IN  IF e /= 0 /\ e = Len(s) + 1
        THEN <<SubSeq(s, r1, r2 - 1), SubSeq(s, g1, g2 - 1), SubSeq(s, b1, b2 - 1)>>
        ELSE <<>>

\* /^rgba\((\d+), (\d+), (\d+), (\d*(\.\d+)?)\)/ on s: groups 1 to
\* 4, or the empty tuple for no match.
rgbaRegex(s) ==
    LET r1 == Lit(s, 1, <<"r", "g", "b", "a", "(">>)
        r2 == DigitsPlus(s, r1)
        g1 == Lit(s, r2, <<",", " ">>)
        g2 == DigitsPlus(s, g1)
        b1 == Lit(s, g2, <<",", " ">>)
        b2 == DigitsPlus(s, b1)
        a1 == Lit(s, b2, <<",", " ">>)
        a2 == OptionalFraction(s, DigitsStar(s, a1))
        e == Lit(s, a2, <<")">>)
    IN  IF e /= 0
        THEN <<SubSeq(s, r1, r2 - 1), SubSeq(s, g1, g2 - 1), SubSeq(s, b1, b2 - 1),
               SubSeq(s, a1, a2 - 1)>>
        ELSE <<>>

\* The integer a string of digits writes.
RECURSIVE DigitsToNat(_)
DigitsToNat(ds) ==
    IF ds = <<>> THEN 0
    ELSE 10 * DigitsToNat(SubSeq(ds, 1, Len(ds) - 1)) + DigitValue(ds[Len(ds)])

\* parseInt(text, 10) of a string of digits.
parseInt(text) == DigitsToNat(text) * Unit

\* The fraction that the digits ds write after a decimal point, in units.
RECURSIVE FractionToUnits(_, _)
FractionToUnits(ds, weight) ==
    IF ds = <<>> \/ weight = 0 THEN 0
    ELSE DigitValue(ds[1]) * weight + FractionToUnits(Tail(ds), weight \div 10)

\* parseFloat(text) of a match of \d*(\.\d+)?: NaN for the empty string.
parseFloat(text) ==
    IF text = <<>> THEN NaN
    ELSE LET p == DigitRun(text, 1)
         IN  DigitsToNat(SubSeq(text, 1, p - 1)) * Unit
               + FractionToUnits(SubSeq(text, p + 1, Len(text)), Unit \div 10)

parseColor(colorString) ==
    IF colorString = <<"t", "r", "a", "n", "s", "p", "a", "r", "e", "n", "t">>
    THEN Color(0, 0, 0, 0)
    ELSE LET match == rgbRegex(colorString)
         IN  IF match /= <<>>
             THEN Color(parseInt(match[1]), parseInt(match[2]), parseInt(match[3]), Unit)
             ELSE LET match2 == rgbaRegex(colorString)
                  IN  IF match2 /= <<>>
                      THEN Color(parseInt(match2[1]), parseInt(match2[2]),
                                 parseInt(match2[3]), parseFloat(match2[4]))
                      ELSE null

\* Number.prototype.toString(radix) of a non-negative integer n (not in units).
RECURSIVE NatToString(_, _)
NatToString(n, radix) ==
    IF n < radix THEN <<HEX_DIGITS[n + 1]>>
    ELSE NatToString(n \div radix, radix) \o <<HEX_DIGITS[(n % radix) + 1]>>

\* The digits of a fraction f of `weight` parts, without trailing zeros.
RECURSIVE FractionDigits(_, _)
FractionDigits(f, weight) ==
    IF f = 0 THEN <<>>
    ELSE <<DIGITS[(f \div weight) + 1]>> \o FractionDigits(f % weight, weight \div 10)

\* Number.prototype.toString(radix) of a number: "NaN", a sign, the integer
\* part and, if any, a point and the fraction (decimal only).
NumberToString(v, radix) ==
    IF IsNaN(v) THEN <<"N", "a", "N">>
    ELSE (IF v < 0 THEN <<"-">> ELSE <<>>)
           \o NatToString(Abs(v) \div Unit, radix)
           \o (IF Abs(v) % Unit = 0 THEN <<>>
               ELSE <<".">> \o FractionDigits(Abs(v) % Unit, Unit \div 10))

\* Number.prototype.toFixed(2).
toFixed2(v) ==
    IF IsNaN(v) THEN <<"N", "a", "N">>
    ELSE LET n == (Abs(v) + 5000) \div 10000
         IN  (IF v < 0 /\ n > 0 THEN <<"-">> ELSE <<>>)
               \o NatToString(n \div 100, 10)
               \o <<".", DIGITS[((n \div 10) % 10) + 1], DIGITS[(n % 10) + 1]>>

\* The literal 0xF of colorChannelToString.
HEX_F == 15000000

colorChannelToString(value) ==
    LET rounded == MathRound(value)
    IN  IF Le(rounded, HEX_F) THEN <<"0">> \o NumberToString(rounded, 16)
        ELSE NumberToString(rounded, 16)

\* Array.prototype.join(",") of the four numbers.
joinComma(numbers) ==
    NumberToString(numbers[1], 10) \o <<",">> \o NumberToString(numbers[2], 10) \o <<",">>
      \o NumberToString(numbers[3], 10) \o <<",">> \o NumberToString(numbers[4], 10)

colorToString(color) ==
    IF ~Ne(color.alpha, Unit)
    THEN <<"#">> \o colorChannelToString(color.red) \o colorChannelToString(color.green)
           \o colorChannelToString(color.blue)
    ELSE <<"r", "g", "b", "a", "(">>
           \o joinComma(<<color.red, color.green, color.blue, color.alpha>>) \o <<")">>

-----------------------------------------------------------------------------
\* desiredFgLuminance and desiredBgLuminance of the loop of suggestColors.
desiredFgLuminance(bgLuminance, fgLuminance, desiredContrast) ==
    luminanceFromContrastRatio(bgLuminance, Add(desiredContrast, CONTRAST_EPSILON),
                               Gt(fgLuminance, bgLuminance))

desiredBgLuminance(bgLuminance, fgLuminance, desiredContrast) ==
    luminanceFromContrastRatio(fgLuminance, Add(desiredContrast, CONTRAST_EPSILON),
                               ~Gt(fgLuminance, bgLuminance))

\* desiredLuminance <= 1 && desiredLuminance >= 0.
withinUnit(luminance) == Le(luminance, Unit) /\ Ge(luminance, 0)

\* colors[desiredLabel] = suggestedColors.
setLabel(colors, desiredLabel, suggestedColors) ==
    [l \in DOMAIN colors \cup {desiredLabel} |->
        IF l = desiredLabel THEN suggestedColors ELSE colors[l]]

\* A variant of the entry of the first branch with the two strings exchanged.
fgSuggestion_Swapped(bgColor, newFgColor) ==
    IF newFgColor.type = "throw" THEN newFgColor
    ELSE [type |-> "suggestedColors",
          fg |-> colorToString(bgColor),
          bg |-> colorToString(newFgColor),
          contrast |-> toFixed2(calculateContrastRatio(newFgColor, bgColor))]

\* The entry of the first branch, the color of the second argument adjusted;
\* a throw of translateColor is passed on.
fgSuggestion(bgColor, newFgColor) ==
    IF newFgColor.type = "throw" THEN newFgColor
    ELSE [type |-> "suggestedColors",
          fg |-> colorToString(newFgColor),
          bg |-> colorToString(bgColor),
          contrast |-> toFixed2(calculateContrastRatio(newFgColor, bgColor))]

\* The entry of the second branch, the color of the first argument adjusted.
bgSuggestion(fgColor, newBgColor) ==
    IF newBgColor.type = "throw" THEN newBgColor
    ELSE [type |-> "suggestedColors",
          bg |-> colorToString(newBgColor),
          fg |-> colorToString(fgColor),
          contrast |-> toFixed2(calculateContrastRatio(fgColor, newBgColor))]

\* A variant of the iteration without the `continue` of the first branch:
\* the second branch, when its luminance is within range, has the last word.
suggestion_NoContinue(bgColor, fgColor, fgYCbCr, bgYCbCr, desiredFg, desiredBg) ==
    IF withinUnit(desiredBg)
    THEN bgSuggestion(fgColor, translateColor(bgYCbCr, desiredBg))
    ELSE IF withinUnit(desiredFg)
    THEN fgSuggestion(bgColor, translateColor(fgYCbCr, desiredFg))
    ELSE null

\* One iteration of the loop: the entry for a label, null for a label that
\* is skipped, or what translateColor threw.
suggestion(bgColor, fgColor, fgYCbCr, bgYCbCr, desiredFg, desiredBg) ==
    IF withinUnit(desiredFg)
    THEN fgSuggestion(bgColor, translateColor(fgYCbCr, desiredFg))
    ELSE IF withinUnit(desiredBg)
    THEN bgSuggestion(fgColor, translateColor(bgYCbCr, desiredBg))
    ELSE null

\* The loop of suggestColors from the i-th requested label on, `colors` being
\* the object built so far; afterSuggestion is the rest of iteration i once
\* its outcome `suggested` is known: a throw ends the call.
RECURSIVE suggestLoop(_, _, _, _, _, _, _, _, _)
RECURSIVE afterSuggestion(_, _, _, _, _, _, _, _, _, _)
suggestLoop(bgColor, fgColor, bgLuminance, fgLuminance, fgYCbCr, bgYCbCr, desiredContrastRatios, i, colors) ==
    IF i > Len(desiredContrastRatios) THEN [type |-> "colors", map |-> colors]
    ELSE afterSuggestion(bgColor, fgColor, bgLuminance, fgLuminance, fgYCbCr, bgYCbCr,
           desiredContrastRatios, i, colors,
           suggestion(bgColor, fgColor, fgYCbCr, bgYCbCr,
             desiredFgLuminance(bgLuminance, fgLuminance, desiredContrastRatios[i].ratio),
             desiredBgLuminance(bgLuminance, fgLuminance, desiredContrastRatios[i].ratio)))

afterSuggestion(bgColor, fgColor, bgLuminance, fgLuminance, fgYCbCr, bgYCbCr, desiredContrastRatios, i, colors, suggested) ==
    IF suggested.type = "throw" THEN suggested
    ELSE suggestLoop(bgColor, fgColor, bgLuminance, fgLuminance, fgYCbCr, bgYCbCr,
           desiredContrastRatios, i + 1,
           IF suggested = null THEN colors
           ELSE setLabel(colors, desiredContrastRatios[i].label,
                         [fg |-> suggested.fg, bg |-> suggested.bg,
                          contrast |-> suggested.contrast]))

\* suggestColors: the first parameter is named bgColor, the second fgColor.
\* The result is the object `colors` (a function from labels to entries, in
\* the field map), or a thrown string.
suggestColors(bgColor, fgColor, desiredContrastRatios) ==
    suggestLoop(bgColor, fgColor, calculateLuminance(bgColor), calculateLuminance(fgColor),
                toYCbCr(fgColor), toYCbCr(bgColor), desiredContrastRatios, 1, <<>>)

-----------------------------------------------------------------------------
(***************************************************************************)
(* The callers of the module: a client, like test/color.js, that holds a   *)
(* foreground and a background color, obtains them from parseColor and     *)
(* flattenColors, and asks for contrast ratios and suggestions.            *)
(***************************************************************************)
VARIABLES
    foregroundColor,    \* the client's foreground: a Color, or null
    backgroundColor,    \* the client's background: a Color, or null
    call,               \* the last call of the module: its name and arguments
    result,             \* what that call returned or threw
    flattens            \* how many times the client has flattened

vars == <<foregroundColor, backgroundColor, call, result, flattens>>

\* How many flattenColors calls a client makes.
MaxFlattens == 1

\* The numerals a client writes for a channel and for alpha.
ChannelNumerals == {<<"0">>, <<"1", "2", "8">>, <<"2", "5", "5">>}

GrayNumerals == {<<"0">>, <<"2", "5", "5">>}

AlphaNumerals == {<<>>, <<"0">>, <<"0", ".", "5">>, <<".", "5">>, <<"1">>}

rgbString(r, g, b) ==
    <<"r", "g", "b", "(">> \o r \o <<",", " ">> \o g \o <<",", " ">> \o b \o <<")">>

rgbaString(r, g, b, a) ==
    <<"r", "g", "b", "a", "(">> \o r \o <<",", " ">> \o g \o <<",", " ">> \o b
      \o <<",", " ">> \o a \o <<")">>

\* The strings of the three supported forms (and beyond 8 bits).
WellFormedStrings ==
    {<<"t", "r", "a", "n", "s", "p", "a", "r", "e", "n", "t">>}
      \cup {rgbString(r, g, b) : r \in ChannelNumerals, g \in ChannelNumerals,
                                 b \in ChannelNumerals}
      \cup {rgbString(<<"3", "0", "0">>, <<"0">>, <<"0">>)}
      \cup {rgbaString(c, c, c, a) : c \in GrayNumerals, a \in AlphaNumerals \ {<<>>}}

\* Strings of no supported form.
OtherStrings ==
    {<<>>,
     <<"#", "f", "f", "f", "f", "f", "f">>,
     <<"r", "g", "b", "(", "0", ",", "0", ",", "0", ")">>,
     <<" ">> \o rgbString(<<"0">>, <<"0">>, <<"0">>),
     rgbString(<<"0">>, <<"0">>, <<"0">>) \o <<"x">>,
     rgbString(<<"0">>, <<"0">>, <<>>),
     rgbaString(<<"0">>, <<"0">>, <<"0">>, <<"1">>) \o <<"x">>,
     rgbaString(<<"0">>, <<"0">>, <<"0">>, <<"1", ".">>),
     <<"r", "g", "b", "a", "(", "0", ",", " ", "0", ",", " ", "0", ")">>}
      \cup {rgbaString(c, c, c, <<>>) : c \in GrayNumerals}

ColorStrings == WellFormedStrings \cup OtherStrings

\* The desiredContrastRatios objects a client asks for, their properties in
\* insertion order: the pair of test/color.js, and a single ratio.
DesiredContrastRatios ==
    {<<[label |-> "AA", ratio |-> 4500000], [label |-> "AAA", ratio |-> 7000000]>>,
     <<[label |-> "large", ratio |-> 3000000]>>}

Init ==
    /\ foregroundColor = null
    /\ backgroundColor = null
    /\ call = [op |-> "none"]
    /\ result = null
    /\ flattens = 0

\* foregroundColor = parseColor(colorString): the client parses a color it
\* does not hold yet (again, after a null).
ParseForeground(colorString) ==
    /\ foregroundColor = null
    /\ result' = parseColor(colorString)
    /\ foregroundColor' = result'
    /\ call' = [op |-> "parseColor", colorString |-> colorString]
    /\ UNCHANGED <<backgroundColor, flattens>>

\* backgroundColor = parseColor(colorString)
ParseBackground(colorString) ==
    /\ backgroundColor = null
    /\ result' = parseColor(colorString)
    /\ backgroundColor' = result'
    /\ call' = [op |-> "parseColor", colorString |-> colorString]
    /\ UNCHANGED <<foregroundColor, flattens>>

\* A client checks for null before it passes a color on.
HasColors == foregroundColor /= null /\ backgroundColor /= null

\* foregroundColor = flattenColors(foregroundColor, backgroundColor)
Flatten ==
    /\ HasColors
    /\ flattens < MaxFlattens
    /\ result' = flattenColors(foregroundColor, backgroundColor)
    /\ foregroundColor' = result'
    /\ call' = [op |-> "flattenColors", fgColor |-> foregroundColor,
                bgColor |-> backgroundColor]
    /\ flattens' = flattens + 1
    /\ UNCHANGED backgroundColor

\* calculateContrastRatio(foregroundColor, backgroundColor)
Contrast ==
    /\ HasColors
    /\ result' = calculateContrastRatio(foregroundColor, backgroundColor)
    /\ call' = [op |-> "calculateContrastRatio", fgColor |-> foregroundColor,
                bgColor |-> backgroundColor]
    /\ UNCHANGED <<foregroundColor, backgroundColor, flattens>>

\* suggestColors(foregroundColor, backgroundColor, desiredContrastRatios), the
\* foreground first as in test/color.js.
Suggest(desiredContrastRatios) ==
    /\ HasColors
    /\ result' = suggestColors(foregroundColor, backgroundColor, desiredContrastRatios)
    /\ call' = [op |-> "suggestColors", first |-> foregroundColor,
                second |-> backgroundColor,
                desiredContrastRatios |-> desiredContrastRatios]
    /\ UNCHANGED <<foregroundColor, backgroundColor, flattens>>

Next ==
    \/ \E colorString \in ColorStrings : ParseForeground(colorString)
    \/ \E colorString \in ColorStrings : ParseBackground(colorString)
    \/ Flatten
    \/ Contrast
    \/ \E desiredContrastRatios \in DesiredContrastRatios : Suggest(desiredContrastRatios)

Spec == Init /\ [][Next]_vars

-----------------------------------------------------------------------------
(***************************************************************************)
(* Properties.  Each is about the last call and what it returned.          *)
(***************************************************************************)

\* A Color as the specification assumes it: channels in [0, 255], alpha in
\* [0, 1], nothing NaN.
InRange(color) ==
    /\ color.type = "Color"
    /\ Ge(color.red, 0) /\ Le(color.red, CHANNEL_MAX)
    /\ Ge(color.green, 0) /\ Le(color.green, CHANNEL_MAX)
    /\ Ge(color.blue, 0) /\ Le(color.blue, CHANNEL_MAX)
    /\ Ge(color.alpha, 0) /\ Le(color.alpha, Unit)

Opaque(color) == InRange(color) /\ color.alpha = Unit

\* A Color none of whose fields is NaN.
IsFinite(color) ==
    /\ color.type = "Color"
    /\ ~IsNaN(color.red) /\ ~IsNaN(color.green) /\ ~IsNaN(color.blue)
    /\ ~IsNaN(color.alpha)

\* The color that a string "#rrggbb" writes.
HexValue(c) == (CHOOSE i \in 1..Len(HEX_DIGITS) : HEX_DIGITS[i] = c) - 1

HexPair(s, i) == (16 * HexValue(s[i]) + HexValue(s[i + 1])) * Unit

hexColor(s) == Color(HexPair(s, 2), HexPair(s, 4), HexPair(s, 6), Unit)

IsSuggest == call.op = "suggestColors"

\* The labels that the last call of suggestColors asked for.
Requested == 1..Len(call.desiredContrastRatios)

LabelOf(i) == call.desiredContrastRatios[i].label

RatioOf(i) == call.desiredContrastRatios[i].ratio

Present(i) == LabelOf(i) \in DOMAIN result.map

EntryOf(i) == result.map[LabelOf(i)]

\* 0 <= luminance <= 1, for a luminance that is a number.
InUnitInterval(luminance) ==
    ~IsNaN(luminance) /\ 0 <= luminance /\ luminance <= Unit

\* The two luminances that the loop of suggestColors computes for the i-th
\* label of the last call: the one for its second argument (first branch)
\* and the one for its first argument (second branch).
FirstTarget(i) ==
    desiredFgLuminance(calculateLuminance(call.first), calculateLuminance(call.second),
                       RatioOf(i))

SecondTarget(i) ==
    desiredBgLuminance(calculateLuminance(call.first), calculateLuminance(call.second),
                       RatioOf(i))

-----------------------------------------------------------------------------
\* The contrast ratio of an entry, recomputed from its two strings.
RecomputedContrast(entry) ==
    calculateContrastRatio(hexColor(entry.fg), hexColor(entry.bg))

\* C1: for in-range input colors (here opaque ones, whose entries are two
\* "#rrggbb" strings) and every requested ratio, each label present in the
\* result of suggestColors has a pair (fg, bg) whose contrast ratio,
\* recomputed by calculateContrastRatio from the returned colors, is at least
\* the ratio requested for that label.
C1_SuggestedContrastMeetsTarget ==
    (IsSuggest /\ Opaque(call.first) /\ Opaque(call.second) /\ result.type = "colors")
      => \A i \in Requested :
            Present(i) => Ge(RecomputedContrast(EntryOf(i)), RatioOf(i))

-----------------------------------------------------------------------------
\* The three forms of the specification, each matched to the end of the
\* string: "transparent", "rgb(<int>, <int>, <int>)" and
\* "rgba(<int>, <int>, <int>, <real>)" with a <real> of at least one character.
IsTransparentForm(s) == s = <<"t", "r", "a", "n", "s", "p", "a", "r", "e", "n", "t">>

IsRgbForm(s) ==
    LET e == Lit(s, DigitsPlus(s, Lit(s, DigitsPlus(s, Lit(s, DigitsPlus(s,
               Lit(s, 1, <<"r", "g", "b", "(">>)), <<",", " ">>)), <<",", " ">>)), <<")">>)
    IN  e = Len(s) + 1

IsRgbaForm(s) ==
    LET a1 == Lit(s, DigitsPlus(s, Lit(s, DigitsPlus(s, Lit(s, DigitsPlus(s,
                Lit(s, 1, <<"r", "g", "b", "a", "(">>)), <<",", " ">>)), <<",", " ">>)),
                <<",", " ">>)
        a2 == OptionalFraction(s, DigitsStar(s, a1))
    IN  a1 /= 0 /\ a2 > a1 /\ Lit(s, a2, <<")">>) = Len(s) + 1

\* C2: parseColor returns null for every string that is not exactly
\* "transparent", not exactly of the form rgb(<int>, <int>, <int>) and not
\* exactly of the form rgba(<int>, <int>, <int>, <real>): characters after
\* the closing parenthesis, or an empty alpha field, yield null.
C2_OtherStringsYieldNull ==
    (call.op = "parseColor"
       /\ ~IsTransparentForm(call.colorString)
       /\ ~IsRgbForm(call.colorString)
       /\ ~IsRgbaForm(call.colorString))
      => result = null

-----------------------------------------------------------------------------
IsContrast == call.op = "calculateContrastRatio"

\* C3, as the specification states it: calculateContrastRatio(a, b) =
\* calculateContrastRatio(b, a) for all colors a and b, those with alpha < 1
\* included.
C3_ContrastSymmetric ==
    (IsContrast /\ InRange(call.fgColor) /\ InRange(call.bgColor))
      => result = calculateContrastRatio(call.bgColor, call.fgColor)

\* C3, amended: calculateContrastRatio(a, b) = calculateContrastRatio(b, a)
\* for all colors a and b whose alpha is 1, where nothing is flattened.
C3_ContrastSymmetricOpaque ==
    (IsContrast /\ Opaque(call.fgColor) /\ Opaque(call.bgColor))
      => result = calculateContrastRatio(call.bgColor, call.fgColor)

\* Two opaque colors of different luminance were compared.
C3_OpaquePairCompared ==
    /\ IsContrast /\ Opaque(call.fgColor) /\ Opaque(call.bgColor)
    /\ Lt(calculateLuminance(call.fgColor), calculateLuminance(call.bgColor))
    /\ Gt(result, Unit)

-----------------------------------------------------------------------------
\* The luminance of the color that calculateContrastRatio takes for the
\* foreground: fgColor flattened over bgColor when its alpha is below 1.
EffectiveFgLuminance ==
    calculateLuminance(IF Lt(call.fgColor.alpha, Unit)
                       THEN flattenColors(call.fgColor, call.bgColor)
                       ELSE call.fgColor)

\* C4: for colors with channels in [0, 255] and alpha in [0, 1],
\* calculateContrastRatio(fg, bg) lies in [1, 21]; it is 1 when both colors
\* have the same luminance, and 21 for opaque black against opaque white.
C4_ContrastRange ==
    (IsContrast /\ InRange(call.fgColor) /\ InRange(call.bgColor))
      => /\ Ge(result, Unit) /\ Le(result, 21 * Unit)
         /\ (EffectiveFgLuminance = calculateLuminance(call.bgColor) => result = Unit)
         /\ ((Opaque(call.fgColor) /\ Opaque(call.bgColor)
               /\ {calculateLuminance(call.fgColor), calculateLuminance(call.bgColor)}
                    = {0, Unit})
               => result = 21 * Unit)

\* Opaque black was compared against opaque white.
C4_BlackOnWhite ==
    /\ IsContrast
    /\ call.fgColor = Color(0, 0, 0, Unit)
    /\ call.bgColor = Color(CHANNEL_MAX, CHANNEL_MAX, CHANNEL_MAX, Unit)
    /\ result = 21 * Unit

-----------------------------------------------------------------------------
\* The luminance that the specification's first attempt aims at when the
\* first argument is the foreground and the second the background.
ForegroundTarget(i) ==
    luminanceFromContrastRatio(
        calculateLuminance(call.second), Add(RatioOf(i), CONTRAST_EPSILON),
        Gt(calculateLuminance(call.first), calculateLuminance(call.second)))

-----------------------------------------------------------------------------
\* C6: for every requested label of suggestColors, the second attempt is
\* evaluated only if the luminance of the first fell outside [0, 1] (a first
\* attempt within range decides the entry: its first argument unchanged, its
\* second translated); the label is in the result if and only if at least
\* one of the two luminances lies in [0, 1]; the result has no label that
\* was not requested.  Stated for arguments without NaN.
C6_LabelPresence ==
    (IsSuggest /\ IsFinite(call.first) /\ IsFinite(call.second))
      => /\ result.type = "colors"
         /\ DOMAIN result.map \subseteq {LabelOf(i) : i \in Requested}
         /\ \A i \in Requested :
              /\ Present(i) <=> (InUnitInterval(FirstTarget(i))
                                   \/ InUnitInterval(SecondTarget(i)))
              /\ InUnitInterval(FirstTarget(i))
                   => /\ EntryOf(i).bg = colorToString(call.first)
                      /\ EntryOf(i).fg = colorToString(
                           translateColor(toYCbCr(call.second), FirstTarget(i)))

\* One call in which a label was omitted and another label got its entry
\* from the second attempt.
C6_OmittedAndSecondAttempt ==
    /\ IsSuggest /\ IsFinite(call.first) /\ IsFinite(call.second)
    /\ result.type = "colors"
    /\ \E i \in Requested : ~Present(i)
    /\ \E j \in Requested :
          /\ ~InUnitInterval(FirstTarget(j)) /\ InUnitInterval(SecondTarget(j))
          /\ Present(j)
          /\ EntryOf(j).fg = colorToString(call.second)

-----------------------------------------------------------------------------
\* C7: every Color returned by parseColor, and every Color returned by
\* flattenColors when both arguments have channels in [0, 255] and alpha in
\* [0, 1], has red, green and blue in [0, 255] and alpha in [0, 1].
C7_ColorsInRange ==
    /\ (call.op = "parseColor" /\ result /= null) => InRange(result)
    /\ (call.op = "flattenColors" /\ InRange(call.fgColor) /\ InRange(call.bgColor))
         => InRange(result)

-----------------------------------------------------------------------------
\* The call of translateColor in the iteration of the i-th label: whether
\* there is one, and its arguments ycc and luma.
Translates(i) == InUnitInterval(FirstTarget(i)) \/ InUnitInterval(SecondTarget(i))

TranslatedYcc(i) ==
    IF InUnitInterval(FirstTarget(i)) THEN toYCbCr(call.second) ELSE toYCbCr(call.first)

TranslatedLuma(i) ==
    IF InUnitInterval(FirstTarget(i)) THEN FirstTarget(i) ELSE SecondTarget(i)

\* None of the three faces of the anchor set of (ycc, luma) is met at a luma
\* in [0, 1].
NoFaceHits(ycc, luma) ==
    \A k \in 1..3 :
        ~InUnitInterval(findIntersection(lineOf(ycc), cubeFacesOf(ycc, luma)[k]).luma)

\* C8: in translateColor, if none of the three faces of the chosen anchor
\* set yields an intersection whose luma lies in [0, 1], the computation
\* ends with the internal error "Couldn't find intersection ..." and returns
\* no Color computed from an out-of-range intersection.
C8_NoHitIsInternalError ==
    (IsSuggest /\ IsFinite(call.first) /\ IsFinite(call.second))
      => \A i \in Requested :
            (Translates(i) /\ NoFaceHits(TranslatedYcc(i), TranslatedLuma(i)))
              => result = Throw("Couldn't find intersection with YCbCr color cube")

-----------------------------------------------------------------------------
\* translateColor(ycc, luma) takes the branch that keeps the chroma.
KeepsChroma(ycc, luma) ==
    keepsChroma(endpointOf(ycc, luma), intersectionOf(ycc, luma), luma)

\* Linear red, green and blue of (luma, ycc.Cb, ycc.Cr) all lie in [0, 1],
\* a thousandth allowed for rounding.
InGamut(rgb) ==
    \A k \in 1..3 : rgb[k] >= -(Unit \div 1000) /\ rgb[k] <= Unit + Unit \div 1000

\* C9: whenever translateColor takes the branch without desaturation and
\* emits (luma, Cb, Cr) with the chroma unchanged, the inverse YCbCr matrix
\* takes that point to linear red, green and blue all in [0, 1], for every
\* opaque input color within range.
C9_KeptChromaInGamut ==
    (IsSuggest /\ Opaque(call.first) /\ Opaque(call.second))
      => \A i \in Requested :
            (Translates(i) /\ KeepsChroma(TranslatedYcc(i), TranslatedLuma(i)))
              => InGamut(multiplyMatrixVector(INVERTED_YCC_MATRIX,
                           <<TranslatedLuma(i), TranslatedYcc(i).Cb, TranslatedYcc(i).Cr>>))
=============================================================================
